---- MODULE Spec2Model ----
(***************************************************************************)
(* ThemeKeeper (src/extension.js): a GNOME Shell extension that snapshots  *)
(* the live theme into light-* / dark-* dconf keys on every color-scheme   *)
(* change, applies the snapshot of the mode being entered, remembers one   *)
(* wallpaper per mode, and follows the Night Light service.                *)
(*                                                                         *)
(* JavaScript values are modelled as strings: null/undefined is Null, the  *)
(* booleans kept in fields or carried by D-Bus are "true" / "false".       *)
(* Text conversions (dconf quoting, trimming, the pairing pattern) are     *)
(* computed on the characters, as the code computes them.                  *)
(***************************************************************************)
EXTENDS Integers, Sequences, FiniteSets, TLC

Null == "<null>"

(***************************************************************************)
(* Bounds of the model.                                                    *)
(***************************************************************************)
MaxEvents == 3      \* external events (host, user, other tools, Night Light service)
MaxPending == 2     \* undelivered notifications of one kind
MaxInflight == 2    \* apply calls suspended at their await
MaxProxies == 2     \* Night Light proxies created (enable() with automatic mode)
MaxSubs == 2        \* live 'changed' closures per settings domain

(***************************************************************************)
(* String helpers (String.prototype.* as used by the code).                *)
(***************************************************************************)
StartsWith(s, p) == Len(s) >= Len(p) /\ SubSeq(s, 1, Len(p)) = p

EndsWith(s, p) == Len(s) >= Len(p) /\ SubSeq(s, Len(s) - Len(p) + 1, Len(s)) = p

\* 0 when sub does not occur, else the first position (1-based)
IndexOf(s, sub) ==
    LET hits == {i \in 1..(Len(s) - Len(sub) + 1) : SubSeq(s, i, i + Len(sub) - 1) = sub}
    IN IF hits = {} THEN 0 ELSE CHOOSE i \in hits : \A j \in hits : i <= j

Includes(s, sub) == IndexOf(s, sub) # 0

\* String.prototype.replace with a string pattern: the first occurrence only
ReplaceFirst(s, pat, rep) ==
    LET i == IndexOf(s, pat)
    IN IF i = 0 THEN s
       ELSE SubSeq(s, 1, i - 1) \o rep \o SubSeq(s, i + Len(pat), Len(s))

\* s.split('/').pop(): what follows the last '/'
LastSegment(s) ==
    LET slashes == {i \in 1..Len(s) : SubSeq(s, i, i) = "/"}
    IN IF slashes = {} THEN s
       ELSE SubSeq(s, (CHOOSE i \in slashes : \A j \in slashes : j <= i) + 1, Len(s))

WhiteSpace == {" ", "\n", "\t"}

\* String.prototype.trim
Trim(s) ==
    LET keep == {i \in 1..Len(s) : SubSeq(s, i, i) \notin WhiteSpace}
    IN IF keep = {} THEN ""
       ELSE SubSeq(s, CHOOSE i \in keep : \A j \in keep : i <= j,
                      CHOOSE i \in keep : \A j \in keep : j <= i)

AlnumChars ==
    {"a","b","c","d","e","f","g","h","i","j","k","l","m","n","o","p","q","r","s",
     "t","u","v","w","x","y","z","A","B","C","D","E","F","G","H","I","J","K","L",
     "M","N","O","P","Q","R","S","T","U","V","W","X","Y","Z","0","1","2","3","4",
     "5","6","7","8","9"}

\* /<tag>[a-zA-Z0-9]+$/.test(s) for a literal tag such as "-l."
MatchesSuffix(s, tag) ==
    \E i \in 1..(Len(s) - Len(tag)) :
       /\ SubSeq(s, i, i + Len(tag) - 1) = tag
       /\ \A j \in (i + Len(tag))..Len(s) : SubSeq(s, j, j) \in AlnumChars

\* JavaScript truthiness of a string-or-null value
Truthy(v) == v # Null /\ v # ""

(***************************************************************************)
(* Keys and value sets.                                                    *)
(***************************************************************************)
DconfPath == "/org/gnome/shell/extensions/themekeeper/"

UserThemeKey == "/org/gnome/shell/extensions/user-theme/name"

ThemeAttrs == {"gtk-theme", "icon-theme", "cursor-theme", "accent-color", "shell-theme"}

SnapshotKeys ==
    {m \o "-" \o a : m \in {"light", "dark"}, a \in ThemeAttrs}

DconfKeys ==
    {DconfPath \o k : k \in SnapshotKeys \cup {"automatic-mode"}} \cup {UserThemeKey}

InterfaceKeys == {"color-scheme", "gtk-theme", "icon-theme", "cursor-theme", "accent-color"}

WallpaperKeys == {"picture-uri", "picture-uri-dark"}

\* org.gnome.desktop.interface color-scheme is an enum of these three nicks
ColorSchemes == {"default", "prefer-light", "prefer-dark"}

Wallpapers == {"file:///w/sun-l.jpg", "file:///w/sun-d.png", "file:///w/random.jpg",
               "file:///w/other.png"}

GtkThemes == {"", "Adwaita", "Kid's"}
IconThemes == {"", "Papirus"}
CursorThemes == {"", "Bibata"}
AccentColors == {"blue", "teal"}
ShellThemes == {"", "Default", "Yaru"}

\* a stored dark snapshot, as the values the dark-* keys hold ("" = key unset)
DarkSnapshots ==
    { [gtk |-> "", icon |-> "", cursor |-> "", accent |-> "", shell |-> ""],
      [gtk |-> "'Adwaita-dark'", icon |-> "'Papirus-Dark'", cursor |-> "'Bibata-Ice'",
       accent |-> "'purple'", shell |-> "'Yaru-dark'"],
      [gtk |-> "'Adwaita-dark'", icon |-> "", cursor |-> "''",
       accent |-> "'purple'", shell |-> "'Default'"] }

VARIABLES
    nightLightProxy,         \* this._nightLightProxy: 0 (null) or an index into proxies
    settings,                \* this._settings: Null or "background"
    interfaceSettings,       \* this._interfaceSettings: Null or "interface"
    lastNightLightState,     \* this._lastNightLightState: Null, "true" or "false"
    storedWallpapers,        \* this._storedWallpapers: [light, dark]
    wallpaperChangeHandler,  \* this._wallpaperChangeHandler: Null or "id"
    styleChangeHandler,      \* this._styleChangeHandler: Null or "id"
    background,              \* org.gnome.desktop.background: picture-uri, picture-uri-dark
    interface,               \* org.gnome.desktop.interface: color-scheme and theme keys
    dconf,                   \* dconf database: key path -> value text ("" = unset)
    nightLightActive,        \* the service's NightLightActive property
    proxies,                 \* the Gio.DBusProxy objects created so far
    subs,                    \* live 'changed' closures per settings domain
    pendingWallpaper,        \* undelivered 'changed' notifications per wallpaper key
    pendingStyle,            \* undelivered changed::color-scheme notifications
    pendingNightLight,       \* undelivered g-properties-changed notifications
    inflight,                \* apply calls suspended at `await this._executeCommand`
    dconfFault,              \* why a dconf command fails now: "none", "spawn" or "exit"
    budget,                  \* external events still to come (bound of the model)
    last,                    \* the step just taken (observer)
    rt                       \* round-trip observer

vars == <<nightLightProxy, settings, interfaceSettings, lastNightLightState,
          storedWallpapers, wallpaperChangeHandler, styleChangeHandler, background,
          interface, dconf, nightLightActive, proxies, subs, pendingWallpaper,
          pendingStyle, pendingNightLight, inflight, dconfFault, budget, last, rt>>

\* The program state as one value, for the handlers (operators from state to state).
\* exc is set while a JavaScript exception propagates.
Cur ==
    [nightLightProxy |-> nightLightProxy, settings |-> settings,
     interfaceSettings |-> interfaceSettings, lastNightLightState |-> lastNightLightState,
     storedWallpapers |-> storedWallpapers,
     wallpaperChangeHandler |-> wallpaperChangeHandler,
     styleChangeHandler |-> styleChangeHandler, background |-> background,
     interface |-> interface, dconf |-> dconf, nightLightActive |-> nightLightActive,
     proxies |-> proxies, subs |-> subs, pendingWallpaper |-> pendingWallpaper,
     pendingStyle |-> pendingStyle, pendingNightLight |-> pendingNightLight,
     inflight |-> inflight, exc |-> FALSE]

Commit(s) ==
    /\ nightLightProxy' = s.nightLightProxy
    /\ settings' = s.settings
    /\ interfaceSettings' = s.interfaceSettings
    /\ lastNightLightState' = s.lastNightLightState
    /\ storedWallpapers' = s.storedWallpapers
    /\ wallpaperChangeHandler' = s.wallpaperChangeHandler
    /\ styleChangeHandler' = s.styleChangeHandler
    /\ background' = s.background
    /\ interface' = s.interface
    /\ dconf' = s.dconf
    /\ nightLightActive' = s.nightLightActive
    /\ proxies' = s.proxies
    /\ subs' = s.subs
    /\ pendingWallpaper' = s.pendingWallpaper
    /\ pendingStyle' = s.pendingStyle
    /\ pendingNightLight' = s.pendingNightLight
    /\ inflight' = s.inflight

\* F applied unless an exception is propagating
Then(s, F(_)) == IF s.exc THEN s ELSE F(s)

\* catch (e) { this._logError(e); }, and the runtime's logging of an exception that
\* leaves a signal callback or an async function
Caught(s) == [s EXCEPT !.exc = FALSE]

Throw(s) == [s EXCEPT !.exc = TRUE]

(***************************************************************************)
(* The dconf command line tool and the settings objects (collaborators).   *)
(***************************************************************************)
\* the store is unavailable: "spawn", the dconf command cannot be started and
\* GLib.spawn_command_line_sync / Gio.Subprocess.init throws; "exit", the command
\* starts, prints nothing on stdout and fails
StoreFaults == {"spawn", "exit"}

\* what a read yields when GLib.spawn_command_line_sync has thrown
SpawnError == "<spawn error>"

\* stdout of `dconf read <path>`: the value text and a newline, nothing when unset
DconfRead(store, path) ==
    IF dconfFault = "spawn" THEN SpawnError
    ELSE IF dconfFault = "exit" THEN ""
    ELSE IF store[path] = "" THEN "" ELSE store[path] \o "\n"

\* `dconf write <path> <text>`: the text must parse as a GVariant; a string literal
\* '...' with a quote character inside does not, and the key is left as it was
DconfWrite(store, path, text) ==
    IF dconfFault # "none" THEN store
    ELSE IF text \in {"true", "false"}
    THEN [store EXCEPT ![path] = text]
    ELSE IF /\ Len(text) >= 2
            /\ StartsWith(text, "'") /\ EndsWith(text, "'")
            /\ ~Includes(SubSeq(text, 2, Len(text) - 1), "'")
            /\ ~Includes(text, "\"")
         THEN [store EXCEPT ![path] = text]
         ELSE store

DconfReset(store, path) == IF dconfFault # "none" THEN store ELSE [store EXCEPT ![path] = ""]

\* mutant: a write of the value the key already has is notified as well
SetBackgroundAlwaysNotifies(s, key, value) ==
    IF s.settings = Null \/ value = Null THEN Throw(s)
    ELSE [s EXCEPT !.background[key] = value,
                   !.pendingWallpaper[key] = IF s.subs.background > 0 THEN @ + 1 ELSE @]

\* Gio.Settings.set_string on this._settings: a TypeError on null (the object or the
\* value); one 'changed' notification when the value changes
SetBackground(s, key, value) ==
    IF s.settings = Null \/ value = Null THEN Throw(s)
    ELSE IF s.background[key] = value THEN s
    ELSE [s EXCEPT !.background[key] = value,
                   !.pendingWallpaper[key] = IF s.subs.background > 0 THEN @ + 1 ELSE @]

\* Gio.Settings.set_string on this._interfaceSettings; only changed::color-scheme
\* has a listener, its notification remembers the value it replaced
SetInterface(s, key, value) ==
    IF s.interfaceSettings = Null \/ value = Null THEN Throw(s)
    ELSE IF s.interface[key] = value THEN s
    ELSE [s EXCEPT !.interface[key] = value,
                   !.pendingStyle = IF key = "color-scheme" /\ s.subs.interface > 0
                                    THEN Append(@, s.interface["color-scheme"]) ELSE @]

(***************************************************************************)
(* DCONF access of the extension (lines 72-149).                           *)
(***************************************************************************)
\* _getDconfBoolean: "true" / "false", or the default when the key is unset or the
\* spawn has thrown (catch, then return defaultValue)
GetDconfBoolean(store, key, defaultValue) ==
    LET stdout == DconfRead(store, DconfPath \o key)
        value == Trim(stdout)
    IN IF stdout = SpawnError THEN defaultValue
       ELSE IF value = "" THEN defaultValue
       ELSE IF value = "true" THEN "true" ELSE "false"

SetDconfBoolean(store, key, value) ==
    DconfWrite(store, DconfPath \o key, IF value = "true" THEN "true" ELSE "false")

\* the quotes `dconf read` prints around a string are stripped
StripQuotes(value) ==
    IF StartsWith(value, "'") /\ EndsWith(value, "'")
    THEN SubSeq(value, 2, Len(value) - 1)
    ELSE value

\* mutant: the failure of the spawn is not caught
GetDconfStringUncaught(store, key, defaultValue) ==
    LET stdout == DconfRead(store, DconfPath \o key)
        value == Trim(stdout)
    IN IF value = "" THEN defaultValue ELSE StripQuotes(value)

GetDconfString(store, key, defaultValue) ==
    LET stdout == DconfRead(store, DconfPath \o key)
        value == Trim(stdout)
    IN IF stdout = SpawnError THEN defaultValue
       ELSE IF value = "" THEN defaultValue ELSE StripQuotes(value)

SetDconfString(store, key, value) ==
    DconfWrite(store, DconfPath \o key, "'" \o value \o "'")

GetCurrentShellTheme(store) ==
    LET stdout == DconfRead(store, UserThemeKey)
        value == Trim(stdout)
    IN IF stdout = SpawnError THEN ""
       ELSE IF value = "" THEN "" ELSE StripQuotes(value)

\* mutant: the default is returned but not persisted
GetAutomaticModeNotPersisted(store) ==
    LET automaticMode == GetDconfBoolean(store, "automatic-mode", Null)
    IN [ret |-> IF automaticMode = Null THEN "true" ELSE automaticMode, store |-> store]

\* _getAutomaticMode: the value read and the store after the call
GetAutomaticMode(store) ==
    LET automaticMode == GetDconfBoolean(store, "automatic-mode", Null)
    IN IF automaticMode = Null
       THEN [ret |-> "true", store |-> SetDconfBoolean(store, "automatic-mode", "true")]
       ELSE [ret |-> automaticMode, store |-> store]

(***************************************************************************)
(* External commands (GLib.spawn_command_line_sync, Gio.Subprocess).       *)
(***************************************************************************)
\* one argument as GLib.shell_parse_argv leaves it: enclosing double quotes removed
Unquote(arg) ==
    IF Len(arg) >= 2 /\ StartsWith(arg, "\"") /\ EndsWith(arg, "\"")
    THEN SubSeq(arg, 2, Len(arg) - 1)
    ELSE arg

\* the effect on the dconf database of running a `dconf write` / `dconf reset` line
RunCommand(store, command) ==
    IF StartsWith(command, "dconf reset ")
    THEN DconfReset(store, SubSeq(command, Len("dconf reset ") + 1, Len(command)))
    ELSE IF StartsWith(command, "dconf write ")
    THEN LET rest == SubSeq(command, Len("dconf write ") + 1, Len(command))
             sp == IndexOf(rest, " ")
         IN IF sp = 0 THEN store
            ELSE DconfWrite(store, SubSeq(rest, 1, sp - 1),
                            Unquote(SubSeq(rest, sp + 1, Len(rest))))
    ELSE store

ShellWriteCommand(name) == "dconf write " \o UserThemeKey \o " \"'" \o name \o "'\""

ShellResetCommand == "dconf reset " \o UserThemeKey

(***************************************************************************)
(* Theme snapshots (lines 151-185).                                        *)
(***************************************************************************)
\* mutant: the light snapshot is taken without the icon theme
SaveLightKeysWithoutIcon(s) ==
    IF s.interfaceSettings = Null THEN s
    ELSE LET currentShell == GetCurrentShellTheme(s.dconf)
             d1 == SetDconfString(s.dconf, "light-gtk-theme", s.interface["gtk-theme"])
             d3 == SetDconfString(d1, "light-cursor-theme", s.interface["cursor-theme"])
             d4 == SetDconfString(d3, "light-accent-color", s.interface["accent-color"])
             d5 == SetDconfString(d4, "light-shell-theme",
                                  IF Truthy(currentShell) THEN currentShell ELSE "Default")
         IN [s EXCEPT !.dconf = d5]

SaveCurrentThemeToLightKeys(s) ==
    IF s.interfaceSettings = Null THEN s
    ELSE LET currentGtk == s.interface["gtk-theme"]
             currentIcon == s.interface["icon-theme"]
             currentCursor == s.interface["cursor-theme"]
             currentAccent == s.interface["accent-color"]
             currentShell == GetCurrentShellTheme(s.dconf)
             d1 == SetDconfString(s.dconf, "light-gtk-theme", currentGtk)
             d2 == SetDconfString(d1, "light-icon-theme", currentIcon)
             d3 == SetDconfString(d2, "light-cursor-theme", currentCursor)
             d4 == SetDconfString(d3, "light-accent-color", currentAccent)
             d5 == SetDconfString(d4, "light-shell-theme",
                                  IF Truthy(currentShell) THEN currentShell ELSE "Default")
         IN [s EXCEPT !.dconf = d5]

SaveCurrentThemeToDarkKeys(s) ==
    IF s.interfaceSettings = Null THEN s
    ELSE LET currentGtk == s.interface["gtk-theme"]
             currentIcon == s.interface["icon-theme"]
             currentCursor == s.interface["cursor-theme"]
             currentAccent == s.interface["accent-color"]
             currentShell == GetCurrentShellTheme(s.dconf)
             d1 == SetDconfString(s.dconf, "dark-gtk-theme", currentGtk)
             d2 == SetDconfString(d1, "dark-icon-theme", currentIcon)
             d3 == SetDconfString(d2, "dark-cursor-theme", currentCursor)
             d4 == SetDconfString(d3, "dark-accent-color", currentAccent)
             d5 == SetDconfString(d4, "dark-shell-theme",
                                  IF Truthy(currentShell) THEN currentShell ELSE "Default")
         IN [s EXCEPT !.dconf = d5]

(***************************************************************************)
(* Applier (lines 278-337). An apply runs to its await, where it is kept   *)
(* in inflight with the values it has read; the subprocess then runs, and  *)
(* the rest of the apply resumes after it.                                 *)
(***************************************************************************)
\* mutant: the sentinel is not recognised
ShellCommandIgnoringSentinel(shell) ==
    IF Truthy(shell) THEN ShellWriteCommand(shell) ELSE ShellResetCommand

\* the command an apply issues for the stored shell theme
ShellCommandFor(shell) ==
    IF Truthy(shell) /\ shell # "Default" THEN ShellWriteCommand(shell)
    ELSE ShellResetCommand

\* _applyLightTheme / _applyDarkTheme up to the await, for the keys of `mode`
ApplyThemeStart(s, mode) ==
    LET gtk == GetDconfString(s.dconf, mode \o "-gtk-theme", Null)
        shell == GetDconfString(s.dconf, mode \o "-shell-theme", Null)
        icon == GetDconfString(s.dconf, mode \o "-icon-theme", Null)
        cursor == GetDconfString(s.dconf, mode \o "-cursor-theme", Null)
        accent == GetDconfString(s.dconf, mode \o "-accent-color", Null)
        s1 == IF Truthy(gtk) THEN SetInterface(s, "gtk-theme", gtk) ELSE s
    IN IF s1.exc THEN Caught(s1)
       ELSE [s1 EXCEPT !.inflight =
                Append(@, [mode |-> mode, command |-> ShellCommandFor(shell),
                           ran |-> FALSE, icon |-> icon, cursor |-> cursor,
                           accent |-> accent])]

ApplyLightTheme(s) == ApplyThemeStart(s, "light")

ApplyDarkTheme(s) == ApplyThemeStart(s, "dark")

RemoveAt(seq, i) == SubSeq(seq, 1, i - 1) \o SubSeq(seq, i + 1, Len(seq))

\* the subprocess of inflight[i] does its work
ExecuteCommand(s, i) ==
    [s EXCEPT !.dconf = RunCommand(@, s.inflight[i].command),
              !.inflight[i].ran = TRUE]

\* mutant: the accent colour is written only once the icon theme is already live
ApplyThemeResumeAccentAfterIcon(s, i) ==
    LET e == s.inflight[i]
        s0 == [s EXCEPT !.inflight = RemoveAt(@, i)]
        s1 == IF Truthy(e.icon) THEN SetInterface(s0, "icon-theme", e.icon) ELSE s0
        s2 == Then(s1, LAMBDA t : IF Truthy(e.cursor)
                                  THEN SetInterface(t, "cursor-theme", e.cursor) ELSE t)
        s3 == Then(s2, LAMBDA t : IF Truthy(e.accent) /\ s.interface["icon-theme"] = e.icon
                                  THEN SetInterface(t, "accent-color", e.accent) ELSE t)
    IN Caught(s3)

\* the rest of the apply, after `await this._executeCommand(...)`
ApplyThemeResume(s, i) ==
    LET e == s.inflight[i]
        s0 == [s EXCEPT !.inflight = RemoveAt(@, i)]
        s1 == IF Truthy(e.icon) THEN SetInterface(s0, "icon-theme", e.icon) ELSE s0
        s2 == Then(s1, LAMBDA t : IF Truthy(e.cursor)
                                  THEN SetInterface(t, "cursor-theme", e.cursor) ELSE t)
        s3 == Then(s2, LAMBDA t : IF Truthy(e.accent)
                                  THEN SetInterface(t, "accent-color", e.accent) ELSE t)
    IN Caught(s3)

\* one apply from its first statement to its last, nothing else running in between
ApplyTheme(s, mode) ==
    LET s1 == ApplyThemeStart(s, mode)
        n == Len(s1.inflight)
    IN IF n = Len(s.inflight) THEN s1
       ELSE ApplyThemeResume(ExecuteCommand(s1, n), n)

(***************************************************************************)
(* Reconciliation handlers (lines 237-276, 339-353).                       *)
(***************************************************************************)
IsPairedWallpaper(uri) ==
    IF ~Truthy(uri) THEN FALSE
    ELSE LET filename == LastSegment(ReplaceFirst(uri, "file://", ""))
         IN MatchesSuffix(filename, "-l.") \/ MatchesSuffix(filename, "-d.")

IsDark(colorScheme) == Includes(colorScheme, "dark")

\* mutant: every unpaired value is accepted into the memory
HandleWallpaperChangeAlwaysAccept(s, changedKey) ==
    IF s.settings = Null \/ s.interfaceSettings = Null THEN Throw(s)
    ELSE IF changedKey = "picture-uri"
         THEN [s EXCEPT !.storedWallpapers.light = s.background[changedKey]]
         ELSE [s EXCEPT !.storedWallpapers.dark = s.background[changedKey]]

\* mutant: only the light key is repaired
HandleWallpaperChangeLightRepairOnly(s, changedKey) ==
    IF s.settings = Null \/ s.interfaceSettings = Null THEN Throw(s)
    ELSE LET newValue == s.background[changedKey]
             isDark == IsDark(s.interface["color-scheme"])
         IN IF IsPairedWallpaper(newValue) \/ ~(changedKey = "picture-uri" /\ isDark)
            THEN IF changedKey = "picture-uri"
                 THEN [s EXCEPT !.storedWallpapers.light = newValue]
                 ELSE IF isDark \/ IsPairedWallpaper(newValue)
                      THEN [s EXCEPT !.storedWallpapers.dark = newValue]
                      ELSE s
            ELSE SetBackground(s, "picture-uri", s.storedWallpapers.light)

\* mutant: a rewrite of one key restores the other key from the memory as well
HandleWallpaperChangeRepairingBoth(s, changedKey) ==
    IF s.settings = Null \/ s.interfaceSettings = Null THEN Throw(s)
    ELSE LET newValue == s.background[changedKey]
             isDark == IsDark(s.interface["color-scheme"])
             isPaired == IsPairedWallpaper(newValue)
             remember ==
                 IF changedKey = "picture-uri"
                 THEN [s EXCEPT !.storedWallpapers.light = newValue]
                 ELSE [s EXCEPT !.storedWallpapers.dark = newValue]
             both == Then(SetBackground(s, "picture-uri", s.storedWallpapers.light),
                          LAMBDA u : SetBackground(u, "picture-uri-dark",
                                                   u.storedWallpapers.dark))
         IN IF isPaired THEN remember
            ELSE IF changedKey = "picture-uri" /\ isDark THEN both
            ELSE IF changedKey = "picture-uri-dark" /\ ~isDark THEN both
            ELSE remember

\* mutant: a paired value gets no special treatment
HandleWallpaperChangeIgnoringPairing(s, changedKey) ==
    IF s.settings = Null \/ s.interfaceSettings = Null THEN Throw(s)
    ELSE LET newValue == s.background[changedKey]
             isDark == IsDark(s.interface["color-scheme"])
             remember ==
                 IF changedKey = "picture-uri"
                 THEN [s EXCEPT !.storedWallpapers.light = newValue]
                 ELSE [s EXCEPT !.storedWallpapers.dark = newValue]
         IN IF changedKey = "picture-uri" /\ isDark
            THEN SetBackground(s, "picture-uri", s.storedWallpapers.light)
            ELSE IF changedKey = "picture-uri-dark" /\ ~isDark
                 THEN SetBackground(s, "picture-uri-dark", s.storedWallpapers.dark)
            ELSE remember

HandleWallpaperChange(s, changedKey) ==
    IF s.settings = Null \/ s.interfaceSettings = Null THEN Throw(s)
    ELSE LET newValue == s.background[changedKey]
             isDark == IsDark(s.interface["color-scheme"])
             isPaired == IsPairedWallpaper(newValue)
             remember ==
                 IF changedKey = "picture-uri"
                 THEN [s EXCEPT !.storedWallpapers.light = newValue]
                 ELSE [s EXCEPT !.storedWallpapers.dark = newValue]
         IN IF isPaired THEN remember
            ELSE IF changedKey = "picture-uri" /\ isDark
                 THEN SetBackground(s, "picture-uri", s.storedWallpapers.light)
            ELSE IF changedKey = "picture-uri-dark" /\ ~isDark
                 THEN SetBackground(s, "picture-uri-dark", s.storedWallpapers.dark)
            ELSE remember

HandleStyleChange(s) ==
    IF s.interfaceSettings = Null THEN Throw(s)
    ELSE IF IsDark(s.interface["color-scheme"])
         THEN ApplyDarkTheme(SaveCurrentThemeToLightKeys(s))
         ELSE ApplyLightTheme(SaveCurrentThemeToDarkKeys(s))

\* mutant: the wallpaper key is compared but never rewritten
RepairWallpaperSkipped(s, key, stored) ==
    IF s.settings = Null THEN Throw(s) ELSE s

\* the repair of one wallpaper key against this._storedWallpapers
RepairWallpaper(s, key, stored) ==
    IF s.settings = Null THEN Throw(s)
    ELSE IF s.background[key] # stored THEN SetBackground(s, key, stored)
    ELSE s

\* mutant: the automatic-mode flag is not consulted
HandleNightLightChangeUngated(s, active) ==
    IF active = "true"
    THEN Then(SetInterface(s, "color-scheme", "prefer-dark"),
              LAMBDA t : RepairWallpaper(t, "picture-uri-dark", t.storedWallpapers.dark))
    ELSE Then(SetInterface(s, "color-scheme", "default"),
              LAMBDA t : RepairWallpaper(t, "picture-uri", t.storedWallpapers.light))

HandleNightLightChange(s, active) ==
    LET am == GetAutomaticMode(s.dconf)
        s0 == [s EXCEPT !.dconf = am.store]
    IN IF am.ret # "true" THEN s0
       ELSE IF active = "true"
            THEN Then(SetInterface(s0, "color-scheme", "prefer-dark"),
                      LAMBDA t : RepairWallpaper(t, "picture-uri-dark",
                                                 t.storedWallpapers.dark))
            ELSE Then(SetInterface(s0, "color-scheme", "default"),
                      LAMBDA t : RepairWallpaper(t, "picture-uri",
                                                 t.storedWallpapers.light))

\* mutant: every notification is handled, whatever the cached state
NightLightPropertiesChangedAlways(s, newState) ==
    Caught(HandleNightLightChange([s EXCEPT !.lastNightLightState = newState], newState))

\* the g-properties-changed closure (lines 223-231)
NightLightPropertiesChanged(s, newState) ==
    IF s.lastNightLightState # newState
    THEN Caught(HandleNightLightChange([s EXCEPT !.lastNightLightState = newState],
                                       newState))
    ELSE s

(***************************************************************************)
(* Lifecycle (lines 45-69, 187-235).                                       *)
(***************************************************************************)
\* _initNightLightMonitoring up to `await this._nightLightProxy.init_async`
InitNightLightMonitoring(s) ==
    [s EXCEPT !.proxies = Append(@, [phase |-> "connecting", conns |-> 0]),
              !.nightLightProxy = Len(s.proxies) + 1]

\* mutant: the wallpapers are not read when monitoring starts
InitMonitoringWithoutMemory(s) ==
    LET s1 == [s EXCEPT !.settings = "background",
                        !.interfaceSettings = "interface",
                        !.wallpaperChangeHandler = "id",
                        !.styleChangeHandler = "id",
                        !.subs = [background |-> @.background + 1,
                                  interface |-> @.interface + 1]]
        am == GetAutomaticMode(s1.dconf)
        s2 == [s1 EXCEPT !.dconf = am.store]
    IN IF am.ret = "true" THEN InitNightLightMonitoring(s2) ELSE s2

InitMonitoring(s) ==
    LET s1 == [s EXCEPT !.settings = "background",
                        !.interfaceSettings = "interface",
                        !.storedWallpapers = [light |-> s.background["picture-uri"],
                                              dark |-> s.background["picture-uri-dark"]],
                        !.wallpaperChangeHandler = "id",
                        !.styleChangeHandler = "id",
                        !.subs = [background |-> @.background + 1,
                                  interface |-> @.interface + 1]]
        am == GetAutomaticMode(s1.dconf)
        s2 == [s1 EXCEPT !.dconf = am.store]
    IN IF am.ret = "true" THEN InitNightLightMonitoring(s2) ELSE s2

\* the rest of _initNightLightMonitoring, after init_async of proxy i succeeded; it
\* uses whatever this._nightLightProxy is by then. A proxy that has not finished
\* init_async has no cached NightLightActive.
NightLightConnected(s, i) ==
    LET s0 == [s EXCEPT !.proxies[i].phase = "ready"]
        p == s0.nightLightProxy
    IN IF p = 0 THEN s0
       ELSE LET initial == IF s0.proxies[p].phase = "ready"
                           THEN s0.nightLightActive ELSE Null
                s1 == HandleNightLightChange(
                          [s0 EXCEPT !.lastNightLightState = initial], initial)
            IN IF s1.exc THEN Caught(s1)
               ELSE [s1 EXCEPT !.proxies[p].conns = @ + 1]

\* init_async of proxy i failed: the exception is logged
NightLightUnavailable(s, i) == [s EXCEPT !.proxies[i].phase = "failed"]

DisableExtension(s) ==
    LET s1 == IF s.nightLightProxy # 0 THEN [s EXCEPT !.nightLightProxy = 0] ELSE s
        s2 == IF s1.settings # Null
              THEN [s1 EXCEPT !.subs.background =
                                  IF s1.wallpaperChangeHandler # Null THEN @ - 1 ELSE @,
                              !.settings = Null]
              ELSE s1
        s3 == IF s2.interfaceSettings # Null
              THEN [s2 EXCEPT !.subs.interface =
                                  IF s2.styleChangeHandler # Null THEN @ - 1 ELSE @,
                              !.interfaceSettings = Null]
              ELSE s2
    IN [s3 EXCEPT !.lastNightLightState = Null]

(***************************************************************************)
(* Delivery of one notification to every closure connected for it.         *)
(***************************************************************************)
RECURSIVE WallpaperClosures(_, _, _)
WallpaperClosures(s, key, n) ==
    IF n = 0 THEN s
    ELSE WallpaperClosures(Caught(HandleWallpaperChange(s, key)), key, n - 1)

RECURSIVE StyleClosures(_, _)
StyleClosures(s, n) ==
    IF n = 0 THEN s ELSE StyleClosures(Caught(HandleStyleChange(s)), n - 1)

RECURSIVE ProxyClosures(_, _, _)
ProxyClosures(s, newState, n) ==
    IF n = 0 THEN s
    ELSE ProxyClosures(NightLightPropertiesChanged(s, newState), newState, n - 1)

\* the closures of proxies i..Len(proxies) that have finished init_async
RECURSIVE NightLightClosures(_, _, _)
NightLightClosures(s, newState, i) ==
    IF i > Len(s.proxies) THEN s
    ELSE NightLightClosures(
             IF s.proxies[i].phase = "ready"
             THEN ProxyClosures(s, newState, s.proxies[i].conns) ELSE s,
             newState, i + 1)

NightLightListeners(s) ==
    LET ready == {i \in 1..Len(s.proxies) : s.proxies[i].phase = "ready"}
        RECURSIVE Sum(_)
        Sum(S) == IF S = {} THEN 0
                  ELSE LET i == CHOOSE i \in S : TRUE
                       IN s.proxies[i].conns + Sum(S \ {i})
    IN Sum(ready)

(***************************************************************************)
(* Observers: the step just taken, and the light -> dark -> light round    *)
(* trip in progress.                                                       *)
(***************************************************************************)
Label(op, arg, n, saw) == [op |-> op, arg |-> arg, n |-> n, saw |-> saw]

LiveTheme(s) ==
    [gtk |-> s.interface["gtk-theme"], icon |-> s.interface["icon-theme"],
     cursor |-> s.interface["cursor-theme"], accent |-> s.interface["accent-color"],
     shell |-> GetCurrentShellTheme(s.dconf)]

NoTheme == [gtk |-> Null, icon |-> Null, cursor |-> Null, accent |-> Null, shell |-> Null]

RtOff == [phase |-> 0, L |-> NoTheme]

\* nothing is pending or suspended
Quiescent(s) ==
    /\ s.pendingStyle = <<>>
    /\ s.pendingNightLight = <<>>
    /\ \A k \in WallpaperKeys : s.pendingWallpaper[k] = 0
    /\ s.inflight = <<>>
    /\ \A i \in 1..Len(s.proxies) : s.proxies[i].phase # "connecting"

\* exactly the closures of one enable() are connected
Monitoring(s) ==
    /\ s.settings # Null /\ s.interfaceSettings # Null
    /\ s.subs.background = 1 /\ s.subs.interface = 1

InternalOps ==
    {"DeliverStyle", "DeliverWallpaper", "DeliverNightLight", "CommandRuns",
     "ApplyResumes", "NightLightInitDone", "CollectGarbage"}

\* phase 1: left light mode with live theme L; 2: the dark apply has completed;
\* 3: switched back to light; 4: the light apply has completed
RtNext(s, lbl) ==
    IF lbl.op = "UserSetColorScheme"
    THEN IF /\ rt.phase = 0 /\ Quiescent(Cur) /\ Monitoring(Cur)
            /\ ~IsDark(interface["color-scheme"]) /\ IsDark(lbl.arg)
         THEN [phase |-> 1, L |-> LiveTheme(Cur)]
         ELSE IF rt.phase = 2 /\ ~IsDark(lbl.arg)
         THEN [phase |-> 3, L |-> rt.L]
         ELSE RtOff
    ELSE IF lbl.op \in InternalOps
    THEN IF rt.phase \in {1, 3} /\ Quiescent(s)
         THEN [phase |-> rt.phase + 1, L |-> rt.L]
         ELSE rt
    ELSE RtOff

Step(s, lbl, cost) ==
    /\ budget >= cost
    /\ Commit(s)
    /\ last' = lbl
    /\ budget' = budget - cost
    /\ rt' = RtNext(s, lbl)
    /\ dconfFault' = dconfFault

(***************************************************************************)
(* Actions of the host (GNOME Shell calling enable / disable).             *)
(***************************************************************************)
Enable ==
    /\ subs.background < MaxSubs /\ subs.interface < MaxSubs
    /\ Len(proxies) < MaxProxies
    /\ Step(InitMonitoring(Cur), Label("Enable", "", 1, dconf[DconfPath \o "automatic-mode"]), 1)

Disable ==
    Step(DisableExtension(Cur), Label("Disable", "", 1, ""), 1)

(***************************************************************************)
(* Actions of the environment: the user and other tools write settings,    *)
(* the Night Light service changes state.                                  *)
(***************************************************************************)
UserSetColorScheme(v) ==
    /\ v # interface["color-scheme"]
    /\ Len(pendingStyle) < MaxPending
    /\ Step([Cur EXCEPT !.interface["color-scheme"] = v,
                        !.pendingStyle = IF subs.interface > 0
                                         THEN Append(@, interface["color-scheme"]) ELSE @],
            Label("UserSetColorScheme", v, 0, interface["color-scheme"]), 1)

ExternalSetWallpaper(key, v) ==
    /\ v # background[key]
    /\ pendingWallpaper[key] < MaxPending
    /\ Step([Cur EXCEPT !.background[key] = v,
                        !.pendingWallpaper[key] = IF subs.background > 0 THEN @ + 1 ELSE @],
            Label("ExternalSetWallpaper", key, 0, v), 1)

UserSetTheme(key, v) ==
    /\ v # interface[key]
    /\ Step([Cur EXCEPT !.interface[key] = v], Label("UserSetTheme", key, 0, v), 1)

\* the user-theme extension's key: a name, or unset for the stock shell theme
UserSetShellTheme(v) ==
    LET text == IF v = "" THEN "" ELSE "'" \o v \o "'"
    IN /\ text # dconf[UserThemeKey]
       /\ Step([Cur EXCEPT !.dconf[UserThemeKey] = text],
               Label("UserSetShellTheme", v, 0, ""), 1)

\* dconf write .../automatic-mode true|false (README), or dconf reset
UserSetAutomaticMode(text) ==
    /\ text # dconf[DconfPath \o "automatic-mode"]
    /\ Step([Cur EXCEPT !.dconf[DconfPath \o "automatic-mode"] = text],
            Label("UserSetAutomaticMode", text, 0, ""), 1)

\* the dconf command stops working (f a fault) or works again (f = "none")
StoreFault(f) ==
    /\ f # dconfFault
    /\ budget >= 1
    /\ Commit(Cur)
    /\ last' = Label("StoreFault", f, 0, dconfFault)
    /\ budget' = budget - 1
    /\ rt' = RtOff
    /\ dconfFault' = f

NightLightToggle ==
    LET v == IF nightLightActive = "true" THEN "false" ELSE "true"
    IN /\ Len(pendingNightLight) < MaxPending
       /\ Step([Cur EXCEPT !.nightLightActive = v,
                           !.pendingNightLight = IF NightLightListeners(Cur) > 0
                                                 THEN Append(@, v) ELSE @],
               Label("NightLightToggle", v, 0, ""), 1)

\* the service announces NightLightActive again with the value it already has
NightLightAnnounce ==
    /\ Len(pendingNightLight) < MaxPending
    /\ NightLightListeners(Cur) > 0
    /\ Step([Cur EXCEPT !.pendingNightLight = Append(@, nightLightActive)],
            Label("NightLightAnnounce", nightLightActive, 0, ""), 1)

(***************************************************************************)
(* Actions of the main loop: notifications are delivered one at a time,    *)
(* awaited operations complete, unreferenced objects are collected.        *)
(***************************************************************************)
DeliverWallpaper(key) ==
    /\ pendingWallpaper[key] > 0
    /\ Step(WallpaperClosures([Cur EXCEPT !.pendingWallpaper[key] = @ - 1],
                              key, subs.background),
            Label("DeliverWallpaper", key, subs.background, background[key]), 0)

DeliverStyle ==
    /\ pendingStyle # <<>>
    /\ Len(inflight) + subs.interface <= MaxInflight
    /\ Step(StyleClosures([Cur EXCEPT !.pendingStyle = Tail(@)], subs.interface),
            Label("DeliverStyle", interface["color-scheme"], subs.interface,
                  Head(pendingStyle)), 0)

DeliverNightLight ==
    /\ pendingNightLight # <<>>
    /\ Step(NightLightClosures([Cur EXCEPT !.pendingNightLight = Tail(@)],
                               Head(pendingNightLight), 1),
            Label("DeliverNightLight", Head(pendingNightLight),
                  NightLightListeners(Cur), lastNightLightState), 0)

NightLightInitDone(i, ok) ==
    /\ i \in 1..Len(proxies)
    /\ proxies[i].phase = "connecting"
    /\ Step(IF ok THEN NightLightConnected(Cur, i) ELSE NightLightUnavailable(Cur, i),
            Label("NightLightInitDone", IF ok THEN "ok" ELSE "failed", 1, ""), 0)

CommandRuns(i) ==
    /\ i \in 1..Len(inflight)
    /\ ~inflight[i].ran
    /\ Step(ExecuteCommand(Cur, i),
            Label("CommandRuns", inflight[i].command, 1, inflight[i].mode), 0)

ApplyResumes(i) ==
    /\ i \in 1..Len(inflight)
    /\ inflight[i].ran
    /\ Step(ApplyThemeResume(Cur, i), Label("ApplyResumes", inflight[i].mode, 1, ""), 0)

\* an orphaned Gio.Settings or Gio.DBusProxy is finalized, its closures with it
CollectSettings(domain) ==
    /\ subs[domain] > (IF settings # Null THEN 1 ELSE 0)
    /\ Step([Cur EXCEPT !.subs[domain] = @ - 1], Label("CollectGarbage", domain, 1, ""), 0)

CollectProxy(i) ==
    /\ i \in 1..Len(proxies)
    /\ i # nightLightProxy
    /\ proxies[i].phase = "ready" /\ proxies[i].conns > 0
    /\ Step([Cur EXCEPT !.proxies[i] = [phase |-> "collected", conns |-> 0]],
            Label("CollectGarbage", "proxy", 1, ""), 0)

(***************************************************************************)
(* Initial states: the extension object as its constructor leaves it, in   *)
(* a desktop whose settings are drawn from the value sets.                 *)
(***************************************************************************)
InitObject ==
    /\ nightLightProxy = 0
    /\ settings = Null
    /\ interfaceSettings = Null
    /\ lastNightLightState = Null
    /\ storedWallpapers = [light |-> Null, dark |-> Null]
    /\ wallpaperChangeHandler = Null
    /\ styleChangeHandler = Null
    /\ proxies = <<>>
    /\ subs = [background |-> 0, interface |-> 0]
    /\ pendingWallpaper = [k \in WallpaperKeys |-> 0]
    /\ pendingStyle = <<>>
    /\ pendingNightLight = <<>>
    /\ inflight = <<>>
    /\ budget = MaxEvents
    /\ last = Label("Init", "", 0, "")
    /\ rt = RtOff

\* a dconf database holding automatic-mode, a dark snapshot and a shell theme
Database(auto, snap, shell) ==
    [k \in DconfKeys |->
        IF k = DconfPath \o "automatic-mode" THEN auto
        ELSE IF k = DconfPath \o "dark-gtk-theme" THEN snap.gtk
        ELSE IF k = DconfPath \o "dark-icon-theme" THEN snap.icon
        ELSE IF k = DconfPath \o "dark-cursor-theme" THEN snap.cursor
        ELSE IF k = DconfPath \o "dark-accent-color" THEN snap.accent
        ELSE IF k = DconfPath \o "dark-shell-theme" THEN snap.shell
        ELSE IF k = UserThemeKey THEN (IF shell = "" THEN "" ELSE "'" \o shell \o "'")
        ELSE ""]

Desktop(scheme, gtk, icon, cursor, accent) ==
    [k \in InterfaceKeys |->
        IF k = "color-scheme" THEN scheme
        ELSE IF k = "gtk-theme" THEN gtk
        ELSE IF k = "icon-theme" THEN icon
        ELSE IF k = "cursor-theme" THEN cursor
        ELSE accent]

SunLight == "file:///w/sun-l.jpg"
SunDark == "file:///w/sun-d.png"

\* every live theme and stored dark snapshot; automatic mode off
InitTheme ==
    /\ InitObject
    /\ \E gtk \in GtkThemes, icon \in IconThemes, cursor \in CursorThemes,
          accent \in AccentColors :
          interface = Desktop("default", gtk, icon, cursor, accent)
    /\ \E snap \in DarkSnapshots, shell \in ShellThemes :
          dconf = Database("false", snap, shell)
    /\ background = [k \in WallpaperKeys |-> IF k = "picture-uri" THEN SunLight ELSE SunDark]
    /\ nightLightActive = "false"
    /\ dconfFault = "none"

FullDarkSnapshot == CHOOSE d \in DarkSnapshots : d.gtk # "" /\ d.icon # ""

\* either mode and every pair of wallpapers; automatic mode on
InitWallpaper ==
    /\ InitObject
    /\ \E scheme \in {"default", "prefer-dark"} :
          interface = Desktop(scheme, "Adwaita", "Papirus", "Bibata", "blue")
    /\ dconf = Database("true", FullDarkSnapshot, "")
    /\ background \in [WallpaperKeys -> {SunLight, SunDark, "file:///w/random.jpg"}]
    /\ nightLightActive = "false"
    /\ dconfFault = "none"

\* automatic mode unset, on or off; Night Light active or not
Init ==
    /\ InitObject
    /\ interface = Desktop("default", "Adwaita", "Papirus", "Bibata", "blue")
    /\ \E auto \in {"", "true", "false"} : dconf = Database(auto, FullDarkSnapshot, "")
    /\ background = [k \in WallpaperKeys |-> IF k = "picture-uri" THEN SunLight ELSE SunDark]
    /\ nightLightActive \in {"true", "false"}
    /\ dconfFault = "none"

\* the store available or not from the start; automatic mode on or off; a stored
\* light snapshot as well as a dark one
InitStore ==
    /\ InitObject
    /\ \E scheme \in {"default", "prefer-dark"} :
          interface = Desktop(scheme, "Adwaita", "Papirus", "Bibata", "blue")
    /\ \E auto \in {"true", "false"} :
          dconf = [Database(auto, FullDarkSnapshot, "Yaru") EXCEPT
                      ![DconfPath \o "light-gtk-theme"] = "'Adwaita'",
                      ![DconfPath \o "light-shell-theme"] = "'Yaru'"]
    /\ background = [k \in WallpaperKeys |-> IF k = "picture-uri" THEN SunLight ELSE SunDark]
    /\ nightLightActive \in {"true", "false"}
    /\ dconfFault \in {"none"} \cup StoreFaults

\* wallpaper values of every shape the pairing pattern distinguishes; the keys are
\* free-form strings that any tool can write
PairingInputs ==
    {"file:///w/sunset-l.jpg", "/w/sunset-d.png", "file:///w/random.jpg", "",
     "file:///w/a-l.tar.gz", "file:///w/-d.x", "file:///w-l.jpg/x", "file:///w/a-l.",
     "/w/a-l.jpgfile://"}

InitPairing ==
    /\ InitObject
    /\ \E scheme \in {"default", "prefer-dark"} :
          interface = Desktop(scheme, "Adwaita", "Papirus", "Bibata", "blue")
    /\ dconf = Database("false", FullDarkSnapshot, "")
    /\ background = [k \in WallpaperKeys |-> IF k = "picture-uri" THEN SunLight ELSE SunDark]
    /\ nightLightActive = "false"
    /\ dconfFault = "none"

NextPairing ==
    \/ Enable
    \/ \E k \in WallpaperKeys, v \in PairingInputs : ExternalSetWallpaper(k, v)
    \/ \E k \in WallpaperKeys : DeliverWallpaper(k)

NextAmbient ==
    \/ Enable
    \/ Disable
    \/ \E v \in ColorSchemes : UserSetColorScheme(v)
    \/ \E v \in {"", "true", "false"} : UserSetAutomaticMode(v)
    \/ NightLightToggle
    \/ NightLightAnnounce
    \/ DeliverNightLight
    \/ \E i \in 1..MaxProxies + 1, ok \in BOOLEAN : NightLightInitDone(i, ok)

\* light mode, automatic mode on, an unpaired wallpaper memorized for the dark mode
InitLoop ==
    /\ InitObject
    /\ interface = Desktop("default", "Adwaita", "Papirus", "Bibata", "blue")
    /\ dconf = Database("true", FullDarkSnapshot, "")
    /\ background = [k \in WallpaperKeys |->
                        IF k = "picture-uri" THEN SunLight ELSE "file:///w/random.jpg"]
    /\ nightLightActive = "false"
    /\ dconfFault = "none"

NextLoop ==
    \/ Enable
    \/ \E v \in {"default", "prefer-dark"} : UserSetColorScheme(v)
    \/ \E k \in WallpaperKeys, v \in {SunDark, "file:///w/other.png"} :
          ExternalSetWallpaper(k, v)
    \/ NightLightToggle
    \/ \E k \in WallpaperKeys : DeliverWallpaper(k)
    \/ DeliverStyle
    \/ DeliverNightLight
    \/ \E i \in 1..MaxProxies + 1, ok \in BOOLEAN : NightLightInitDone(i, ok)
    \/ \E i \in 1..MaxInflight + 1 : CommandRuns(i)
    \/ \E i \in 1..MaxInflight + 1 : ApplyResumes(i)

NextTheme ==
    \/ Enable
    \/ Disable
    \/ \E v \in ColorSchemes : UserSetColorScheme(v)
    \/ \E v \in GtkThemes : UserSetTheme("gtk-theme", v)
    \/ \E v \in ShellThemes : UserSetShellTheme(v)
    \/ DeliverStyle
    \/ \E i \in 1..MaxInflight + 1 : CommandRuns(i)
    \/ \E i \in 1..MaxInflight + 1 : ApplyResumes(i)

NextWallpaper ==
    \/ Enable
    \/ \E v \in ColorSchemes : UserSetColorScheme(v)
    \/ \E k \in WallpaperKeys, v \in Wallpapers : ExternalSetWallpaper(k, v)
    \/ NightLightToggle
    \/ \E k \in WallpaperKeys : DeliverWallpaper(k)
    \/ DeliverStyle
    \/ DeliverNightLight
    \/ \E i \in 1..MaxProxies + 1, ok \in BOOLEAN : NightLightInitDone(i, ok)
    \/ \E i \in 1..MaxInflight + 1 : CommandRuns(i)
    \/ \E i \in 1..MaxInflight + 1 : ApplyResumes(i)

Next ==
    \/ Enable
    \/ Disable
    \/ \E v \in ColorSchemes : UserSetColorScheme(v)
    \/ \E k \in WallpaperKeys, v \in Wallpapers : ExternalSetWallpaper(k, v)
    \/ \E v \in {"", "true", "false"} : UserSetAutomaticMode(v)
    \/ NightLightToggle
    \/ \E k \in WallpaperKeys : DeliverWallpaper(k)
    \/ DeliverStyle
    \/ DeliverNightLight
    \/ \E i \in 1..MaxProxies + 1, ok \in BOOLEAN : NightLightInitDone(i, ok)
    \/ \E i \in 1..MaxInflight + 1 : CommandRuns(i)
    \/ \E i \in 1..MaxInflight + 1 : ApplyResumes(i)
    \/ \E d \in {"background", "interface"} : CollectSettings(d)
    \/ \E i \in 1..MaxProxies + 1 : CollectProxy(i)

NextStore ==
    \/ Enable
    \/ Disable
    \/ \E f \in {"none"} \cup StoreFaults : StoreFault(f)
    \/ \E v \in ColorSchemes : UserSetColorScheme(v)
    \/ NightLightToggle
    \/ DeliverStyle
    \/ DeliverNightLight
    \/ \E i \in 1..MaxProxies + 1, ok \in BOOLEAN : NightLightInitDone(i, ok)
    \/ \E i \in 1..MaxInflight + 1 : CommandRuns(i)
    \/ \E i \in 1..MaxInflight + 1 : ApplyResumes(i)

\* what the GLib main loop does on its own: it delivers the pending notifications
\* and completes the awaited operations
MainLoop ==
    \/ \E k \in WallpaperKeys : DeliverWallpaper(k)
    \/ DeliverStyle
    \/ DeliverNightLight
    \/ \E i \in 1..MaxProxies + 1, ok \in BOOLEAN : NightLightInitDone(i, ok)
    \/ \E i \in 1..MaxInflight + 1 : CommandRuns(i)
    \/ \E i \in 1..MaxInflight + 1 : ApplyResumes(i)

SpecTheme == InitTheme /\ [][NextTheme]_vars

\* ENABLED <<MainLoop>>_vars, written out from the guards of its actions
MainLoopReady ==
    \/ \E k \in WallpaperKeys : pendingWallpaper[k] > 0
    \/ pendingStyle # <<>> /\ Len(inflight) + subs.interface <= MaxInflight
    \/ pendingNightLight # <<>>
    \/ \E i \in 1..Len(proxies) : proxies[i].phase = "connecting"
    \/ inflight # <<>>

\* weak fairness of the main loop: it does not stop while something is pending
MainLoopFair == []<>(~MainLoopReady) \/ []<><<MainLoop>>_vars

\* one external change after another, with a main loop that keeps running
SpecLoop == InitLoop /\ [][NextLoop]_vars /\ MainLoopFair

SpecStore == InitStore /\ [][NextStore]_vars

SpecPairing == InitPairing /\ [][NextPairing]_vars

SpecAmbient == Init /\ [][NextAmbient]_vars

SpecWallpaper == InitWallpaper /\ [][NextWallpaper]_vars

Spec == Init /\ [][Next]_vars

(***************************************************************************)
(* Properties.                                                             *)
(***************************************************************************)
HasQuote(v) == Includes(v, "'") \/ Includes(v, "\"")

\* a live theme that a snapshot and an apply reproduce: the four interface values
\* are non-empty, nothing holds a quote character, and the shell theme is not
\* named like the sentinel
Restorable(L) ==
    /\ \A v \in {L.gtk, L.icon, L.cursor, L.accent} : v # "" /\ ~HasQuote(v)
    /\ L.shell # "Default" /\ ~HasQuote(L.shell)

\* C1 as stated: after light -> dark -> light, each switch handled and its apply
\* completed before the next event, the live theme is the theme L that was live
\* when light mode was left, for every L
C1_RoundTripAnyTheme == rt.phase = 4 => LiveTheme(Cur) = rt.L

\* C1 (amended): the round trip light -> dark -> light restores the five live
\* attributes L, provided L is restorable (gtk, icon, cursor and accent non-empty,
\* no quote characters, shell theme not named "Default")
C1_RoundTrip == (rt.phase = 4 /\ Restorable(rt.L)) => LiveTheme(Cur) = rt.L

C1_RoundTripWitness ==
    /\ rt.phase = 4 /\ Restorable(rt.L)
    /\ rt.L.gtk = "Adwaita" /\ rt.L.shell = "Yaru"
    /\ LiveTheme(Cur) = rt.L
    /\ GetDconfString(dconf, "dark-gtk-theme", Null) = "Adwaita-dark"
    /\ GetDconfString(dconf, "dark-shell-theme", Null) = "Yaru-dark"

AutoKey == DconfPath \o "automatic-mode"

LightKeys == {DconfPath \o "light-" \o a : a \in ThemeAttrs}

DarkKeys == {DconfPath \o "dark-" \o a : a \in ThemeAttrs}

\* C2: the light-* keys change only in a style-change handler whose notification
\* took the color-scheme from a light value to a dark one, and the dark-* keys only
\* in one that took it from a dark value to a light one
C2_SnapshotOnlyWhenLeaving ==
    [][/\ (\E k \in LightKeys : dconf'[k] # dconf[k]) =>
             (last'.op = "DeliverStyle" /\ ~IsDark(last'.saw) /\ IsDark(last'.arg))
       /\ (\E k \in DarkKeys : dconf'[k] # dconf[k]) =>
             (last'.op = "DeliverStyle" /\ IsDark(last'.saw) /\ ~IsDark(last'.arg))]_vars

Slot(key) == IF key = "picture-uri" THEN "light" ELSE "dark"

\* the key of the mode that is not active
InactiveKey(key, colorScheme) ==
    \/ key = "picture-uri" /\ IsDark(colorScheme)
    \/ key = "picture-uri-dark" /\ ~IsDark(colorScheme)

\* C3: a wallpaper-change handler that reads an unpaired value for the key of the
\* inactive mode rewrites the live key to the memorized value of that slot and
\* leaves Mode Memory as it was
C3_InactiveRewrite ==
    [][\A key \in WallpaperKeys :
          (/\ last'.op = "DeliverWallpaper" /\ last'.arg = key /\ last'.n >= 1
           /\ settings # Null
           /\ ~IsPairedWallpaper(background[key])
           /\ InactiveKey(key, interface["color-scheme"]))
          => /\ background'[key] = storedWallpapers[Slot(key)]
             /\ storedWallpapers' = storedWallpapers]_vars

C3_InactiveRewriteWitness ==
    /\ last.op = "DeliverWallpaper" /\ last.arg = "picture-uri" /\ last.n = 1
    /\ IsDark(interface["color-scheme"])
    /\ ~IsPairedWallpaper(last.saw)
    /\ background["picture-uri"] # last.saw
    /\ background["picture-uri"] = storedWallpapers.light
    /\ pendingWallpaper["picture-uri"] = 1

\* the wallpaper-change handler runs for the dark key in light mode and reads an
\* unpaired value C that is not the memorized dark wallpaper B
DarkDriftHandled ==
    /\ last'.op = "DeliverWallpaper" /\ last'.arg = "picture-uri-dark" /\ last'.n >= 1
    /\ settings # Null
    /\ ~IsDark(interface["color-scheme"])
    /\ ~IsPairedWallpaper(background["picture-uri-dark"])
    /\ background["picture-uri-dark"] # storedWallpapers.dark

\* C4 as stated: in light mode an unpaired value C written to the dark key is still
\* there after the wallpaper-change handler
C4_DarkKeyKept ==
    [][DarkDriftHandled => background'["picture-uri-dark"] = background["picture-uri-dark"]]_vars

\* C4 (amended): in light mode an unpaired value C written to the dark key is
\* replaced by the memorized dark wallpaper B in the wallpaper-change handler
\* itself, the rewrite is notified, and Mode Memory stays {light: A, dark: B}
C4_DarkKeyRepaired ==
    [][DarkDriftHandled =>
          /\ background'["picture-uri-dark"] = storedWallpapers.dark
          /\ background'["picture-uri-dark"] # background["picture-uri-dark"]
          /\ pendingWallpaper'["picture-uri-dark"] = pendingWallpaper["picture-uri-dark"]
          /\ storedWallpapers' = storedWallpapers]_vars

C4_DarkKeyRepairedWitness ==
    /\ last.op = "DeliverWallpaper" /\ last.arg = "picture-uri-dark" /\ last.n = 1
    /\ ~IsDark(interface["color-scheme"])
    /\ last.saw = "file:///w/random.jpg"
    /\ storedWallpapers = [light |-> SunLight, dark |-> SunDark]
    /\ background["picture-uri-dark"] = SunDark

C6_StopClearsEverything ==
    last.op = "Disable" =>
        /\ storedWallpapers = [light |-> Null, dark |-> Null]
        /\ lastNightLightState = Null
        /\ subs.background = 0 /\ subs.interface = 0
        /\ NightLightListeners(Cur) = 0

\* C7: while the extension is disabled (its settings objects and proxy cleared), the
\* completion of a proxy connect, the resumption of an apply and the
\* g-properties-changed closure change no live setting, no stored key, and neither
\* Mode Memory nor the cached Night Light state
C7_CallbacksNoOpAfterStop ==
    [][(/\ settings = Null /\ interfaceSettings = Null /\ nightLightProxy = 0
        /\ last'.op \in {"NightLightInitDone", "ApplyResumes", "DeliverNightLight"})
          => /\ interface' = interface
             /\ background' = background
             /\ dconf' = dconf
             /\ storedWallpapers' = storedWallpapers
             /\ lastNightLightState' = lastNightLightState]_vars

\* C8: every live interface-setting write of an apply precedes its await, so the
\* resumption after the shell-theme command writes no interface setting
C8_LiveWritesBeforeAwait ==
    [][last'.op = "ApplyResumes" => interface' = interface]_vars

EnteredMode(colorScheme) == IF IsDark(colorScheme) THEN "dark" ELSE "light"

LeftMode(colorScheme) == IF IsDark(colorScheme) THEN "light" ELSE "dark"

\* C9: an apply that reads a shell theme that is unset, empty or "Default" issues
\* the reset command, no apply issues a write command for the name "Default", and
\* a snapshot of an empty live shell theme stores "Default"
C9_ShellSentinel ==
    [][(last'.op = "DeliverStyle" /\ last'.n >= 1 /\ interfaceSettings # Null) =>
          LET scheme == interface["color-scheme"]
              stored == GetDconfString(dconf, EnteredMode(scheme) \o "-shell-theme", Null)
          IN /\ Len(inflight') = Len(inflight) + last'.n
             /\ \A j \in (Len(inflight) + 1)..Len(inflight') :
                   /\ stored \in {Null, "", "Default"} =>
                         inflight'[j].command = ShellResetCommand
                   /\ inflight'[j].command # ShellWriteCommand("Default")
             /\ GetCurrentShellTheme(dconf) = "" =>
                   GetDconfString(dconf', LeftMode(scheme) \o "-shell-theme", Null) = "Default"]_vars

C9_ShellSentinelWitness ==
    /\ last.op = "DeliverStyle" /\ last.n = 1
    /\ IsDark(interface["color-scheme"])
    /\ dconf[DconfPath \o "dark-shell-theme"] = "'Default'"
    /\ dconf[DconfPath \o "light-shell-theme"] = "'Default'"
    /\ dconf[UserThemeKey] = ""
    /\ Len(inflight) = 1 /\ inflight[1].command = ShellResetCommand

\* C10: _getAutomaticMode on an unset key returns true and stores true, so that the
\* next read returns true as well; on a set key it returns the stored value and
\* writes nothing. enable() starts the Night Light monitoring on a true return.
C10_FirstReadDefault ==
    [][LET r == GetAutomaticMode(dconf)
       IN /\ dconf[AutoKey] = "" =>
                /\ r.ret = "true" /\ r.store[AutoKey] = "true"
                /\ GetAutomaticMode(r.store) = [ret |-> "true", store |-> r.store]
          /\ dconf[AutoKey] # "" => r = [ret |-> dconf[AutoKey], store |-> dconf]
          /\ last'.op = "Enable" =>
                /\ dconf' = r.store
                /\ Len(proxies') = Len(proxies) + (IF r.ret = "true" THEN 1 ELSE 0)]_vars

C10_FirstReadDefaultWitness ==
    /\ last.op = "Enable" /\ last.saw = ""
    /\ dconf[AutoKey] = "true"
    /\ nightLightProxy = Len(proxies) /\ nightLightProxy > 0

\* C11: in every state, for both modes, applying the stored snapshot of a mode twice
\* with nothing in between leaves the live gtk, icon, cursor and accent settings and
\* the shell-theme key as applying it once does, and an apply leaves the stored
\* snapshots as they are
C11_ApplyIdempotent ==
    \A mode \in {"light", "dark"} :
        LET once == ApplyTheme(Cur, mode)
            twice == ApplyTheme(once, mode)
        IN /\ LiveTheme(twice) = LiveTheme(once)
           /\ \A k \in LightKeys \cup DarkKeys : once.dconf[k] = dconf[k]

\* two closures of the style-change handler (enable() called twice) have each run a
\* dark apply to its end, one after the other
C11_ApplyIdempotentWitness ==
    /\ last.op = "ApplyResumes" /\ last.arg = "dark"
    /\ subs.interface = 2 /\ inflight = <<>> /\ pendingStyle = <<>>
    /\ interfaceSettings # Null
    /\ interface["gtk-theme"] = "Adwaita-dark" /\ interface["icon-theme"] = "Papirus-Dark"
    /\ dconf[UserThemeKey] = "'Yaru-dark'"
    /\ LiveTheme(ApplyTheme(Cur, "dark")) = LiveTheme(Cur)
    /\ LiveTheme(ApplyTheme(Cur, "light")) # LiveTheme(Cur)

\* the adapter while the store is unavailable: every read returns the caller's
\* default and every write returns the store as it was
AdapterFailsOpen ==
    \A key \in SnapshotKeys \cup {"automatic-mode"} :
        /\ \A d \in {Null, "true", "false"} : GetDconfBoolean(dconf, key, d) = d
        /\ \A d \in {Null, "fallback"} : GetDconfString(dconf, key, d) = d
        /\ \A v \in {"true", "false"} : SetDconfBoolean(dconf, key, v) = dconf
        /\ \A v \in {"Adwaita", "Default", ""} : SetDconfString(dconf, key, v) = dconf

\* C12: while the store is unavailable, every get* returns the caller's default and
\* every set* changes nothing; a handler that runs then leaves every stored key,
\* the subscriptions, the settings objects and Mode Memory as they were and runs to
\* its end: the style-change handler reaches the await of its apply with nothing
\* read from the store (no live theme write, the reset command), the Night Light
\* closure caches the new state and sets the color-scheme under the default
\* automatic-mode (true), and enable() subscribes and starts the Night Light connect
C12_FailOpen ==
    [][(dconfFault \in StoreFaults) =>
          /\ AdapterFailsOpen
          /\ last'.op # "StoreFault" => dconf' = dconf
          /\ last'.op \in {"DeliverStyle", "DeliverNightLight", "CommandRuns", "ApplyResumes"} =>
                /\ subs' = subs /\ settings' = settings
                /\ interfaceSettings' = interfaceSettings
                /\ wallpaperChangeHandler' = wallpaperChangeHandler
                /\ styleChangeHandler' = styleChangeHandler
                /\ storedWallpapers' = storedWallpapers
          /\ (last'.op = "DeliverStyle" /\ last'.n >= 1 /\ interfaceSettings # Null) =>
                /\ Len(inflight') = Len(inflight) + last'.n
                /\ \A j \in (Len(inflight) + 1)..Len(inflight') :
                      inflight'[j].command = ShellResetCommand
                /\ interface' = interface
          /\ (/\ last'.op = "DeliverNightLight" /\ last'.n >= 1
              /\ settings # Null /\ lastNightLightState # last'.arg) =>
                /\ lastNightLightState' = last'.arg
                /\ interface'["color-scheme"] =
                      (IF last'.arg = "true" THEN "prefer-dark" ELSE "default")
          /\ last'.op = "Enable" =>
                /\ settings' # Null /\ interfaceSettings' # Null
                /\ subs'.background = subs.background + 1
                /\ subs'.interface = subs.interface + 1
                /\ Len(proxies') = Len(proxies) + 1]_vars

\* the style-change handler has run while dconf could not be started: the stored
\* dark snapshot was not read, the live theme is untouched, the apply is at its await
C12_FailOpenWitness ==
    /\ last.op = "DeliverStyle" /\ last.n = 1
    /\ dconfFault = "spawn"
    /\ IsDark(interface["color-scheme"])
    /\ dconf[DconfPath \o "dark-gtk-theme"] = "'Adwaita-dark'"
    /\ dconf[DconfPath \o "light-icon-theme"] = ""
    /\ interface["gtk-theme"] = "Adwaita"
    /\ Len(inflight) = 1 /\ inflight[1].command = ShellResetCommand
    /\ subs.interface = 1 /\ interfaceSettings # Null

\* the classification as the specification words it: the last path component, a
\* leading file:// prefix removed, ends in -l.<ext> or -d.<ext> with a non-empty
\* alphanumeric extension
PairedByPattern(uri) ==
    /\ uri \notin {Null, ""}
    /\ LET path == IF StartsWith(uri, "file://") THEN SubSeq(uri, 8, Len(uri)) ELSE uri
           name == LastSegment(path)
       IN \E tag \in {"-l.", "-d."} : \E n \in 1..(Len(name) - 3) :
             /\ SubSeq(name, Len(name) - n - 2, Len(name) - n) = tag
             /\ \A j \in (Len(name) - n + 1)..Len(name) : SubSeq(name, j, j) \in AlnumChars

\* C13: _isPairedWallpaper is true for .../sunset-l.jpg and .../sunset-d.png, false
\* for .../random.jpg, the empty string and null, and for every wallpaper value
\* the wallpaper-change handler meets it is true exactly when the last path
\* component, a leading file:// prefix removed, ends in -l.<ext> or -d.<ext>
\* (a value the handler meets: one whose change notification is pending)
C13_PairedExactlyByPattern ==
    /\ IsPairedWallpaper("file:///w/sunset-l.jpg")
    /\ IsPairedWallpaper("/w/sunset-d.png")
    /\ ~IsPairedWallpaper("file:///w/random.jpg")
    /\ ~IsPairedWallpaper("")
    /\ ~IsPairedWallpaper(Null)
    /\ \A k \in WallpaperKeys :
          (settings # Null /\ pendingWallpaper[k] > 0) =>
              (IsPairedWallpaper(background[k]) <=> PairedByPattern(background[k]))

\* _handleNightLightChange runs in this step with the extension enabled and
\* automatic-mode read as true; its argument is what lastNightLightState becomes
NightLightHandled ==
    /\ settings # Null /\ interfaceSettings # Null
    /\ GetAutomaticMode(dconf).ret = "true"
    /\ \/ /\ last'.op = "DeliverNightLight" /\ last'.n >= 1
          /\ lastNightLightState # last'.arg
       \/ /\ last'.op = "NightLightInitDone" /\ last'.arg = "ok"
          /\ nightLightProxy # 0
    /\ lastNightLightState' \in {"true", "false"}

\* C14: with automatic-mode true, after _handleNightLightChange(true) the
\* color-scheme is prefer-dark and the live dark wallpaper key equals Mode Memory's
\* dark value, the light key untouched; after _handleNightLightChange(false) the
\* color-scheme is default and the live light key equals Mode Memory's light
\* value, the dark key untouched; Mode Memory itself is not changed
C14_NightLightReconciles ==
    [][NightLightHandled =>
          /\ storedWallpapers' = storedWallpapers
          /\ lastNightLightState' = "true" =>
                /\ interface'["color-scheme"] = "prefer-dark"
                /\ background'["picture-uri-dark"] = storedWallpapers.dark
                /\ background'["picture-uri"] = background["picture-uri"]
                /\ pendingWallpaper'["picture-uri"] = pendingWallpaper["picture-uri"]
          /\ lastNightLightState' = "false" =>
                /\ interface'["color-scheme"] = "default"
                /\ background'["picture-uri"] = storedWallpapers.light
                /\ background'["picture-uri-dark"] = background["picture-uri-dark"]
                /\ pendingWallpaper'["picture-uri-dark"] = pendingWallpaper["picture-uri-dark"]]_vars

\* Night Light came on while an external write of the dark key was still unhandled:
\* the key is back at the memorized value, and both the external write and the
\* repair are waiting to be notified
C14_NightLightReconcilesWitness ==
    /\ last.op = "DeliverNightLight" /\ last.arg = "true" /\ last.n = 1
    /\ last.saw = "false"
    /\ interface["color-scheme"] = "prefer-dark"
    /\ background["picture-uri-dark"] = storedWallpapers.dark
    /\ pendingWallpaper["picture-uri-dark"] = 2
    /\ pendingStyle = <<"default">>

\* what one run of the closure on the notified value makes of the state
OneNightLightRun ==
    NightLightPropertiesChanged([Cur EXCEPT !.pendingNightLight = Tail(@)],
                                Head(pendingNightLight))

\* C15: a NightLightActive notification whose value equals the cached state writes
\* no live setting, touches no stored key and leaves the cache as it is; one whose
\* value differs sets the cache to the new value (also when the handler then
\* fails), and however many closures receive it the handler runs once
C15_AmbientDedup ==
    [][(last'.op = "DeliverNightLight" /\ last'.n >= 1) =>
          /\ lastNightLightState = last'.arg =>
                /\ interface' = interface /\ background' = background
                /\ dconf' = dconf
                /\ pendingStyle' = pendingStyle /\ pendingWallpaper' = pendingWallpaper
                /\ lastNightLightState' = lastNightLightState
          /\ lastNightLightState # last'.arg =>
                /\ lastNightLightState' = last'.arg
                /\ interface' = OneNightLightRun.interface
                /\ background' = OneNightLightRun.background
                /\ dconf' = OneNightLightRun.dconf
                /\ pendingStyle' = OneNightLightRun.pendingStyle
                /\ pendingWallpaper' = OneNightLightRun.pendingWallpaper]_vars

\* the service announced "inactive" again after the user had chosen the dark
\* scheme by hand: the notification equals the cache and the scheme is left alone
C15_AmbientDedupWitness ==
    /\ last.op = "DeliverNightLight" /\ last.n = 1
    /\ last.arg = "false" /\ last.saw = "false"
    /\ lastNightLightState = "false"
    /\ settings # Null
    /\ dconf[AutoKey] = "true"
    /\ interface["color-scheme"] = "prefer-dark"

C17_PairedAccepted ==
    [][\A key \in WallpaperKeys :
          (/\ last'.op = "DeliverWallpaper" /\ last'.arg = key /\ last'.n >= 1
           /\ settings # Null
           /\ IsPairedWallpaper(background[key]))
          => /\ storedWallpapers' = [storedWallpapers EXCEPT ![Slot(key)] = background[key]]
             /\ background' = background /\ interface' = interface
             /\ pendingWallpaper' = [pendingWallpaper EXCEPT ![key] = @ - 1]
             /\ pendingStyle' = pendingStyle]_vars

\* in dark mode the light key was set to a paired file (a dark variant, even): it
\* is now the memorized light wallpaper and the key still holds it
C17_PairedAcceptedWitness ==
    /\ last.op = "DeliverWallpaper" /\ last.arg = "picture-uri" /\ last.n = 1
    /\ budget = MaxEvents - 2
    /\ IsDark(interface["color-scheme"])
    /\ last.saw = SunDark
    /\ storedWallpapers.light = SunDark
    /\ background["picture-uri"] = SunDark
    /\ pendingWallpaper["picture-uri"] = 0

OtherKey(key) == IF key = "picture-uri" THEN "picture-uri-dark" ELSE "picture-uri"

\* C18: a wallpaper-change handler for one key changes neither the Mode Memory slot
\* nor the live value of the other key and queues no notification for it, and it
\* changes no interface setting (color-scheme, theme attributes) and no stored key
C18_SlotIndependence ==
    [][\A key \in WallpaperKeys :
          (last'.op = "DeliverWallpaper" /\ last'.arg = key)
          => /\ storedWallpapers'[Slot(OtherKey(key))] = storedWallpapers[Slot(OtherKey(key))]
             /\ background'[OtherKey(key)] = background[OtherKey(key)]
             /\ pendingWallpaper'[OtherKey(key)] = pendingWallpaper[OtherKey(key)]
             /\ interface' = interface /\ pendingStyle' = pendingStyle
             /\ dconf' = dconf /\ inflight' = inflight]_vars

\* in dark mode the light key has been rewritten to the memorized wallpaper while
\* the dark key holds a value that is not the memorized one and whose notification
\* is still to come: the dark key and the dark slot were left alone
C18_SlotIndependenceWitness ==
    /\ last.op = "DeliverWallpaper" /\ last.arg = "picture-uri" /\ last.n = 1
    /\ IsDark(interface["color-scheme"])
    /\ ~IsPairedWallpaper(last.saw)
    /\ background["picture-uri"] = storedWallpapers.light
    /\ background["picture-uri"] # last.saw
    /\ background["picture-uri-dark"] # storedWallpapers.dark
    /\ pendingWallpaper["picture-uri-dark"] = 1

\* C19: while the extension is enabled and no wallpaper-change notification is
\* pending, Mode Memory's light slot is the live picture-uri value and its dark
\* slot the live picture-uri-dark value
C19_MemoryTracksLive ==
    (settings # Null /\ \A k \in WallpaperKeys : pendingWallpaper[k] = 0)
    => /\ storedWallpapers.light = background["picture-uri"]
       /\ storedWallpapers.dark = background["picture-uri-dark"]

\* after enable(), an unpaired wallpaper chosen in light mode and a Night Light
\* activation, everything handled: the memory holds the two live values
C19_MemoryTracksLiveWitness ==
    /\ settings # Null /\ Quiescent(Cur)
    /\ budget = MaxEvents - 3
    /\ lastNightLightState = "true" /\ IsDark(interface["color-scheme"])
    /\ storedWallpapers.light = "file:///w/other.png"
    /\ background["picture-uri"] = "file:///w/other.png"
    /\ storedWallpapers.dark = background["picture-uri-dark"]

Stored(store, mode, attr) == GetDconfString(store, mode \o "-" \o attr, Null)

\* the attributes an apply writes after its await
LateAttrs == {"icon-theme", "cursor-theme", "accent-color"}

\* what the suspended apply e is going to write for attr
Carried(e, attr) ==
    IF attr = "icon-theme" THEN e.icon
    ELSE IF attr = "cursor-theme" THEN e.cursor ELSE e.accent

\* C20: when a color-scheme change is handled while the apply of the previous one
\* is still suspended, the snapshot taken for the mode being left does not receive,
\* for an attribute in which the two modes differ, the value of the mode being
\* entered; and when the last suspended apply has completed with no style
\* notification pending, the live icon, cursor and accent values are those of the
\* snapshot of the mode the color-scheme names, also when that last apply was
\* started for the other mode
C20_OverlapConsistent ==
    [][/\ (/\ last'.op = "DeliverStyle" /\ last'.n = 1 /\ interfaceSettings # Null) =>
             LET left == LeftMode(interface["color-scheme"])
                 entered == EnteredMode(interface["color-scheme"])
             IN \A j \in 1..Len(inflight) : \A a \in LateAttrs :
                   (/\ inflight[j].mode = left
                    /\ Truthy(Carried(inflight[j], a))
                    /\ Carried(inflight[j], a) # Stored(dconf, entered, a))
                   => Stored(dconf', left, a) # Stored(dconf', entered, a)
       /\ (/\ last'.op = "ApplyResumes" /\ inflight' = <<>> /\ pendingStyle = <<>>
           /\ interfaceSettings # Null /\ subs.interface = 1
           /\ last'.arg # EnteredMode(interface["color-scheme"])) =>
             \A a \in LateAttrs :
                Truthy(Stored(dconf', EnteredMode(interface["color-scheme"]), a)) =>
                   interface'[a] = Stored(dconf', EnteredMode(interface["color-scheme"]), a)]_vars

====
